---- MODULE Spec2Model ----
(***************************************************************************)
(* Twisted graphene simulator (src/app2.py, src/app1.py): the numeric core *)
(* (grid construction, strain, rotation, lattice field, superposition) and *)
(* the control panel that feeds it.                                        *)
(*                                                                         *)
(* Numbers.  The program computes in IEEE float64.  The model computes in  *)
(* decimal fixed point: a real v is the integer round(v * SCALE), and      *)
(* every product, quotient, cosine and sine is rounded to the nearest      *)
(* multiple of 1/SCALE (ties to even), as float64 rounds to the            *)
(* nearest double.  A model value therefore agrees with the program's to   *)
(* about 1/SCALE per operation, and agrees exactly wherever the program's  *)
(* result is exact for structural reasons (x*1, x*0, x+0, cos 0, sin 0).   *)
(* Products are split so that no intermediate exceeds 2^31.                *)
(***************************************************************************)
EXTENDS Integers, Sequences, FiniteSets, TLC

SCALE == 10 * 1000

Abs(v) == IF v < 0 THEN -v ELSE v
Sgn(v) == IF v < 0 THEN -1 ELSE IF v > 0 THEN 1 ELSE 0

\* n / d rounded to nearest, ties to even (IEEE 754), for n >= 0, d > 0
RoundDiv(n, d) ==
    LET q == n \div d
        r == n % d
    IN  IF 2 * r > d THEN q + 1
        ELSE IF 2 * r = d THEN q + (q % 2)
        ELSE q

\* |p * q| / SCALE for magnitudes p >= q >= 0, without forming p * q
MulMag(p, q) == (p \div SCALE) * q + RoundDiv((p % SCALE) * q, SCALE)

\* float multiplication  u * v
FMul(u, v) ==
    LET p == Abs(u)
        q == Abs(v)
    IN  Sgn(u) * Sgn(v) * (IF p >= q THEN MulMag(p, q) ELSE MulMag(q, p))

\* float division  u / v   (v # 0)
FDiv(u, v) ==
    LET p == Abs(u)
        q == Abs(v)
    IN  Sgn(u) * Sgn(v) * ((p \div q) * SCALE + RoundDiv((p % q) * SCALE, q))

\* a Python number given in tenths (slider steps are 0.1) as a float
Tenths(t) == t * (SCALE \div 10)
\* a Python int as a float
Whole(i) == i * SCALE

\* np.pi; 2 * np.pi; the quarter turn used by the argument reduction
PI == 31416
TWO_PI == 2 * PI
HALF_PI == PI \div 2

\* np.radians(deg): deg * pi / 180
Radians(deg) == Sgn(deg) * RoundDiv(MulMag(IF Abs(deg) >= PI THEN Abs(deg) ELSE PI,
                                           IF Abs(deg) >= PI THEN PI ELSE Abs(deg)), 180)

\* np.cos and np.sin never leave [-1, 1]
Clamp(v) == IF v < 0 THEN 0 ELSE IF v > SCALE THEN SCALE ELSE v

\* cosine and sine on the first quadrant, t in [0, pi/2], by their Taylor
\* series in Horner form (terms up to t^10 and t^11); t2 is t * t
CosPoly(t2) ==
    SCALE - RoundDiv(FMul(t2,
      SCALE - RoundDiv(FMul(t2,
        SCALE - RoundDiv(FMul(t2,
          SCALE - RoundDiv(FMul(t2,
            SCALE - RoundDiv(t2, 90)), 56)), 30)), 12)), 2)
SinPoly(t2) ==
    SCALE - RoundDiv(FMul(t2,
      SCALE - RoundDiv(FMul(t2,
        SCALE - RoundDiv(FMul(t2,
          SCALE - RoundDiv(FMul(t2,
            SCALE - RoundDiv(t2, 110)), 72)), 42)), 20)), 6)
CosQ(t) == Clamp(CosPoly(FMul(t, t)))
SinQ(t) == Clamp(FMul(t, SinPoly(FMul(t, t))))

\* argument reduction: the quadrant of |r| mod 2 pi and the offset in it
Quadrant(r) == ((Abs(r) % TWO_PI) \div HALF_PI) % 4
Offset(r) == (Abs(r) % TWO_PI) % HALF_PI

\* the cosine and the sine in quadrant q at offset t
CosAt(q, t) ==
    CASE q = 0 -> CosQ(t)
      [] q = 1 -> 0 - SinQ(t)
      [] q = 2 -> 0 - CosQ(t)
      [] q = 3 -> SinQ(t)
SinAt(q, t) ==
    CASE q = 0 -> SinQ(t)
      [] q = 1 -> CosQ(t)
      [] q = 2 -> 0 - SinQ(t)
      [] q = 3 -> 0 - CosQ(t)

\* np.cos
Cos(r) == CosAt(Quadrant(r), Offset(r))

\* np.sin
Sin(r) == Sgn(r) * SinAt(Quadrant(r), Offset(r))

\* np.sqrt(v), v >= 0: the nearest fixed-point number to the square root
RECURSIVE Newton(_, _)
Newton(n, g) ==
    LET h == (g + n \div g) \div 2
    IN  IF h >= g THEN g ELSE Newton(n, h)
Nearest(n, lo) == IF n - lo * lo <= (lo + 1) * (lo + 1) - n THEN lo ELSE lo + 1
Sqrt(v) == IF v = 0 THEN 0 ELSE Nearest(v * SCALE, Newton(v * SCALE, v * SCALE))

(***************************************************************************)
(* numpy arrays.  An array is [shape, at]: its shape and its elements, a   *)
(* function of the index.  A 1-D array holds every element.  An array of   *)
(* two or more dimensions holds at[r][c] for the rows r and columns c of   *)
(* the view (all of them in Spec; a window of them where the grid is       *)
(* 400 x 400): every numpy operation the program applies to such an array  *)
(* acts on each (r, c) by itself, so the elements outside the view never   *)
(* enter the elements inside it.                                           *)
(***************************************************************************)
Range(n) == 0 .. (n - 1)

\* elementwise unary and binary operations on 2-D arrays
Map(A, F(_)) ==
    [shape |-> A.shape,
     at |-> [r \in DOMAIN A.at |-> [c \in DOMAIN A.at[r] |-> F(A.at[r][c])]]]
Zip(A, B, F(_, _)) ==
    [shape |-> A.shape,
     at |-> [r \in DOMAIN A.at |->
               [c \in DOMAIN A.at[r] |-> F(A.at[r][c], B.at[r][c])]]]

\* np.linspace(start, stop, num) with endpoint=True: arange(num) * step + start
\* with step = (stop - start) / (num - 1), and the last sample set to stop.
\* The float64 step carries 53 bits, so i * step is i * delta / div to the
\* model's resolution: the product is formed before it is rounded.
linspace_step(start, stop, num) ==
    LET delta == stop - start
    IN  Sgn(delta) * RoundDiv(Abs(delta), num - 1)
linspace_sample(start, stop, num, i) ==
    LET div == num - 1
        delta == Abs(stop - start)
    IN  Sgn(stop - start) * ((delta \div div) * i + RoundDiv((delta % div) * i, div))
          + start
\* a variant with endpoint=False: num samples of step (stop - start) / num
linspace_no_endpoint(start, stop, num) ==
    [shape |-> <<num>>,
     at |-> [i \in Range(num) |-> linspace_sample(start, stop, num + 1, i)]]

linspace(start, stop, num) ==
    [shape |-> <<num>>,
     at |-> [i \in Range(num) |->
               IF num > 1 /\ i = num - 1 THEN stop
               ELSE linspace_sample(start, stop, num, i)]]

\* np.meshgrid(x, y) (indexing 'xy'): X[r][c] = x[c], Y[r][c] = y[r]
meshgrid(x, y, v) ==
    LET shp == <<y.shape[1], x.shape[1]>>
    IN  <<[shape |-> shp, at |-> [r \in v.rows |-> [c \in v.cols |-> x.at[c]]]],
          [shape |-> shp, at |-> [r \in v.rows |-> [c \in v.cols |-> y.at[r]]]]>>

\* np.stack([X, Y], axis=-1)
stack(X, Y) ==
    [shape |-> X.shape \o <<2>>,
     at |-> [r \in DOMAIN X.at |->
               [c \in DOMAIN X.at[r] |->
                  [k \in Range(2) |-> IF k = 0 THEN X.at[r][c] ELSE Y.at[r][c]]]]]

\* M.T of a 2 x 2 matrix
transpose(M) == [i \in Range(2) |-> [j \in Range(2) |-> M[j][i]]]

\* a variant that multiplies elementwise by the diagonal of B
matmul_diagonal(coords, B) ==
    [shape |-> coords.shape,
     at |-> [r \in DOMAIN coords.at |->
               [c \in DOMAIN coords.at[r] |->
                  [k \in Range(2) |-> FMul(coords.at[r][c][k], B[k][k])]]]]

\* coords @ B: the product over the last axis of coords, at every (r, c)
matmul(coords, B) ==
    [shape |-> coords.shape,
     at |-> [r \in DOMAIN coords.at |->
               [c \in DOMAIN coords.at[r] |->
                  [k \in Range(2) |->
                     FMul(coords.at[r][c][0], B[0][k])
                       + FMul(coords.at[r][c][1], B[1][k])]]]]

\* A[..., k]
component(A, k) ==
    [shape |-> SubSeq(A.shape, 1, Len(A.shape) - 1),
     at |-> [r \in DOMAIN A.at |-> [c \in DOMAIN A.at[r] |-> A.at[r][c][k]]]]

\* the strain tensor of apply_strain
strain_fraction(strain_percent) == FDiv(strain_percent, Whole(100))
Square(v) == FMul(v, v)
eps_xx(strain_percent, strain_angle_deg) ==
    FMul(strain_fraction(strain_percent), Square(Cos(Radians(strain_angle_deg))))
eps_yy(strain_percent, strain_angle_deg) ==
    FMul(strain_fraction(strain_percent), Square(Sin(Radians(strain_angle_deg))))
eps_xy(strain_percent, strain_angle_deg) ==
    FMul(FMul(strain_fraction(strain_percent), Sin(Radians(strain_angle_deg))),
         Cos(Radians(strain_angle_deg)))

\* np.array([[m00, m01], [m10, m11]])
Matrix2(m00, m01, m10, m11) ==
    [i \in Range(2) |->
       [j \in Range(2) |->
          IF i = 0 THEN (IF j = 0 THEN m00 ELSE m01)
                   ELSE (IF j = 0 THEN m10 ELSE m11)]]

\* a variant that leaves the identity out of the deformation matrix
strain_matrix_no_identity(strain_percent, strain_angle_deg) ==
    Matrix2(eps_xx(strain_percent, strain_angle_deg),
            eps_xy(strain_percent, strain_angle_deg),
            eps_xy(strain_percent, strain_angle_deg),
            eps_yy(strain_percent, strain_angle_deg))

strain_matrix(strain_percent, strain_angle_deg) ==
    Matrix2(SCALE + eps_xx(strain_percent, strain_angle_deg),
            eps_xy(strain_percent, strain_angle_deg),
            eps_xy(strain_percent, strain_angle_deg),
            SCALE + eps_yy(strain_percent, strain_angle_deg))

\* the three phases of graphene_lattice at one point
a == 24600
HALF == SCALE \div 2
SQRT3_2 == FDiv(Sqrt(Whole(3)), Whole(2))
phase1(x, y, la) == FDiv(FMul(TWO_PI, x), la)
phase2(x, y, la) == FDiv(FMul(TWO_PI, FMul(HALF, x) + FMul(SQRT3_2, y)), la)
phase3(x, y, la) == FDiv(FMul(TWO_PI, FMul(0 - HALF, x) + FMul(SQRT3_2, y)), la)

(***************************************************************************)
(* The heap.  Every numpy call returns a new array except where the code   *)
(* says otherwise: `lattice += ...` adds into the array `lattice` names,   *)
(* and strained_coords[..., k] is a view of strained_coords.  heap is the  *)
(* sequence of array buffers allocated so far; a reference is a buffer     *)
(* and the component of its last axis it views (WHOLE: all of it).         *)
(***************************************************************************)
WHOLE == 0 - 1
NoRef == [buf |-> 0, comp |-> WHOLE]

Deref(h, ref) ==
    IF ref.comp = WHOLE THEN h[ref.buf] ELSE component(h[ref.buf], ref.comp)

\* a new buffer holding val
Alloc(h, val) == [heap |-> Append(h, val), ref |-> [buf |-> Len(h) + 1, comp |-> WHOLE]]

\* write val into what ref names: the whole buffer, or one component of it
Store(h, ref, val) ==
    IF ref.comp = WHOLE THEN [h EXCEPT ![ref.buf] = val]
    ELSE [h EXCEPT ![ref.buf] =
            [shape |-> @.shape,
             at |-> [r \in DOMAIN @.at |->
                       [c \in DOMAIN @.at[r] |->
                          [k \in Range(2) |->
                             IF k = ref.comp THEN val.at[r][c] ELSE @.at[r][c][k]]]]]]

\* target += val, in place
IAdd(h, target, val) ==
    Store(h, target, Zip(Deref(h, target), val, LAMBDA u, v : u + v))

(***************************************************************************)
(* The three functions of the core.  Each takes the heap and references    *)
(* to its array arguments and yields the heap after the call and the       *)
(* references it returns.                                                  *)
(***************************************************************************)
\* the strained coordinates of the grid arrays Xv, Yv
strained(Xv, Yv, strain_percent, strain_angle_deg) ==
    matmul(stack(Xv, Yv), transpose(strain_matrix(strain_percent, strain_angle_deg)))

\* the two views  strained_coords[..., 0], strained_coords[..., 1]
Views(strained_coords) ==
    [heap |-> strained_coords.heap,
     ret |-> <<[buf |-> strained_coords.ref.buf, comp |-> 0],
               [buf |-> strained_coords.ref.buf, comp |-> 1]>>]

\* a variant that strains the grid arrays in place and returns them
apply_strain_inplace(h, X, Y, strain_percent, strain_angle_deg) ==
    [heap |-> Store(Store(h, X, component(strained(Deref(h, X), Deref(h, Y),
                                                   strain_percent, strain_angle_deg), 0)),
                    Y, component(strained(Deref(h, X), Deref(h, Y),
                                          strain_percent, strain_angle_deg), 1)),
     ret |-> <<X, Y>>]

apply_strain(h, X, Y, strain_percent, strain_angle_deg) ==
    Views(Alloc(h, strained(Deref(h, X), Deref(h, Y), strain_percent, strain_angle_deg)))

\* a variant that adds only the first of the two further cosines
AccumulateOnce(lattice, t2, t3) ==
    [heap |-> IAdd(lattice.heap, lattice.ref, t2), ret |-> <<lattice.ref>>]

\* lattice += t2; lattice += t3; return lattice
Accumulate(lattice, t2, t3) ==
    [heap |-> IAdd(IAdd(lattice.heap, lattice.ref, t2), lattice.ref, t3),
     ret |-> <<lattice.ref>>]

graphene_lattice(h, X, Y, la) ==
    Accumulate(Alloc(h, Zip(Deref(h, X), Deref(h, Y), LAMBDA u, v : Cos(phase1(u, v, la)))),
               Zip(Deref(h, X), Deref(h, Y), LAMBDA u, v : Cos(phase2(u, v, la))),
               Zip(Deref(h, X), Deref(h, Y), LAMBDA u, v : Cos(phase3(u, v, la))))

\* X_rot and Y_rot, each a new array
Returned2(h, X_rot, Y_rot) ==
    [heap |-> h \o <<X_rot, Y_rot>>,
     ret |-> <<[buf |-> Len(h) + 1, comp |-> WHOLE], [buf |-> Len(h) + 2, comp |-> WHOLE]>>]

\* a variant with sine and cosine exchanged
rotate_grid_swapped(h, X, Y, angle_deg) ==
    Returned2(h,
        Zip(Deref(h, X), Deref(h, Y), LAMBDA u, v :
              FMul(u, Sin(Radians(angle_deg))) - FMul(v, Cos(Radians(angle_deg)))),
        Zip(Deref(h, X), Deref(h, Y), LAMBDA u, v :
              FMul(u, Cos(Radians(angle_deg))) + FMul(v, Sin(Radians(angle_deg)))))

rotate_grid(h, X, Y, angle_deg) ==
    Returned2(h,
        Zip(Deref(h, X), Deref(h, Y), LAMBDA u, v :
              FMul(u, Cos(Radians(angle_deg))) - FMul(v, Sin(Radians(angle_deg)))),
        Zip(Deref(h, X), Deref(h, Y), LAMBDA u, v :
              FMul(u, Sin(Radians(angle_deg))) + FMul(v, Cos(Radians(angle_deg)))))

(***************************************************************************)
(* The script.  Streamlit runs the module top to bottom on every render;   *)
(* Script gives, for the line the run is at, the call on that line (the    *)
(* function, the names of its arguments, the names it binds) and the line  *)
(* that follows.                                                           *)
(*                                                                         *)
(* Python compiles a file before it runs its first statement.  src/app1.py *)
(* ends with a line holding a markdown fence (line 125), a syntax error:   *)
(* a run of app1.py stops there with no statement executed and no name     *)
(* bound.  src/app2.py compiles, and the lines of Script are its lines.    *)
(***************************************************************************)
Stmt(fn, args, outs, next) == [fn |-> fn, args |-> args, outs |-> outs, next |-> next]

Apps == {1, 2}
LoadLine == 1
FenceLine == 125
FirstLine == 50
DoneLine == 110

\* the line at which compiling the script of app (1: app1.py, 2: app2.py)
\* fails, or 0 where it compiles
SyntaxErrorLine(app) == IF app = 1 THEN FenceLine ELSE 0
Compiles(app) == SyntaxErrorLine(app) = 0

Script(system_mode, line) ==
    CASE line = 50 -> Stmt("grid", <<"extent", "grid_size">>, <<"x", "y", "X", "Y">>,
                           IF system_mode = "Bilayer" THEN 68 ELSE 88)
      [] line = 68 -> Stmt("apply_strain", <<"X", "Y", "strain1", "angle1">>, <<"X1", "Y1">>, 69)
      [] line = 69 -> Stmt("apply_strain", <<"X", "Y", "strain2", "angle2">>, <<"X2", "Y2">>, 70)
      [] line = 70 -> Stmt("graphene_lattice", <<"X1", "Y1">>, <<"lattice1">>, 71)
      [] line = 71 -> Stmt("rotate_grid", <<"X2", "Y2", "theta_layer2">>, <<"X2_rot", "Y2_rot">>, 72)
      [] line = 72 -> Stmt("graphene_lattice", <<"X2_rot", "Y2_rot">>, <<"lattice2">>, 73)
      [] line = 73 -> Stmt("add", <<"lattice1", "lattice2">>, <<"combined">>, 100)
      [] line = 88 -> Stmt("apply_strain", <<"X", "Y", "strain1", "angle1">>, <<"X1", "Y1">>, 89)
      [] line = 89 -> Stmt("apply_strain", <<"X", "Y", "strain2", "angle2">>, <<"X2", "Y2">>, 90)
      [] line = 90 -> Stmt("apply_strain", <<"X", "Y", "strain3", "angle3">>, <<"X3", "Y3">>, 91)
      [] line = 91 -> Stmt("graphene_lattice", <<"X1", "Y1">>, <<"lattice1">>, 92)
      [] line = 92 -> Stmt("rotate_grid", <<"X2", "Y2", "theta_layer2">>, <<"X2_rot", "Y2_rot">>, 93)
      [] line = 93 -> Stmt("graphene_lattice", <<"X2_rot", "Y2_rot">>, <<"lattice2">>, 94)
      [] line = 94 -> Stmt("rotate_grid", <<"X3", "Y3", "theta_layer3">>, <<"X3_rot", "Y3_rot">>, 95)
      [] line = 95 -> Stmt("graphene_lattice", <<"X3_rot", "Y3_rot">>, <<"lattice3">>, 96)
      [] line = 96 -> Stmt("add", <<"lattice1", "lattice2", "lattice3">>, <<"combined">>, 100)
      [] line = 100 -> Stmt("imshow", <<"combined">>, <<"fig">>, DoneLine)
      [] OTHER -> Stmt("end", <<>>, <<>>, DoneLine)

ArrayNames ==
    {"x", "y", "X", "Y", "X1", "Y1", "X2", "Y2", "X3", "Y3", "X2_rot", "Y2_rot",
     "X3_rot", "Y3_rot", "lattice1", "lattice2", "lattice3", "combined", "fig"}

VARIABLES
    params,   \* the script that runs and the values its widgets return to the run
    view,     \* the rows and columns of the 2-D arrays the model holds
    pc,       \* the line the run is at
    heap,     \* the array buffers
    ns,       \* the module namespace: array name -> reference
    log       \* the statements executed so far, in order

vars == <<params, view, pc, heap, ns, log>>

\* a variant whose lattice of layer 2 reads the strained, not yet rotated
\* coordinates
stmt_unrotated ==
    IF Script(params.system_mode, pc).outs = <<"lattice2">>
    THEN [Script(params.system_mode, pc) EXCEPT !.args = <<"X2", "Y2">>]
    ELSE Script(params.system_mode, pc)

\* the statement the run is at
stmt == Script(params.system_mode, pc)

\* bind the names outs[i] to refs[i]
Bind(n, outs, refs) ==
    [k \in ArrayNames |->
       IF \E i \in DOMAIN outs : outs[i] = k
       THEN refs[CHOOSE i \in DOMAIN outs : outs[i] = k]
       ELSE n[k]]

Advance ==
    /\ pc' = stmt.next
    /\ log' = Append(log, stmt)
    /\ UNCHANGED <<params, view>>

\* the file is compiled and, where that succeeds, run down to the grid
\* statement: imports, the three function definitions, the widgets
Load ==
    /\ pc = LoadLine
    /\ pc' = IF Compiles(params.app) THEN FirstLine ELSE SyntaxErrorLine(params.app)
    /\ UNCHANGED <<params, view, heap, ns, log>>

\* lines 50-52: x = linspace(-extent, extent, grid_size), y likewise, meshgrid
BuildGrid ==
    /\ stmt.fn = "grid"
    /\ \E x \in {linspace(-Whole(params.extent), Whole(params.extent), params.grid_size)},
          y \in {linspace(-Whole(params.extent), Whole(params.extent), params.grid_size)} :
         \E XY \in {meshgrid(x, y, view)} :
           /\ heap' = heap \o <<x, y, XY[1], XY[2]>>
           /\ ns' = Bind(ns, stmt.outs,
                         [i \in 1 .. 4 |-> [buf |-> Len(heap) + i, comp |-> WHOLE]])
    /\ Advance

\* Xk, Yk = apply_strain(X, Y, straink, anglek)
ApplyStrain ==
    /\ stmt.fn = "apply_strain"
    /\ \E r \in {apply_strain(heap, ns[stmt.args[1]], ns[stmt.args[2]],
                              params[stmt.args[3]], params[stmt.args[4]])} :
           /\ heap' = r.heap
           /\ ns' = Bind(ns, stmt.outs, r.ret)
    /\ Advance

\* latticek = graphene_lattice(Xk, Yk, a)
GrapheneLattice ==
    /\ stmt.fn = "graphene_lattice"
    /\ \E r \in {graphene_lattice(heap, ns[stmt.args[1]], ns[stmt.args[2]], a)} :
           /\ heap' = r.heap
           /\ ns' = Bind(ns, stmt.outs, r.ret)
    /\ Advance

\* Xk_rot, Yk_rot = rotate_grid(Xk, Yk, theta_layerk)
RotateGrid ==
    /\ stmt.fn = "rotate_grid"
    /\ \E r \in {rotate_grid(heap, ns[stmt.args[1]], ns[stmt.args[2]], params[stmt.args[3]])} :
           /\ heap' = r.heap
           /\ ns' = Bind(ns, stmt.outs, r.ret)
    /\ Advance

\* a variant that adds the first two fields only
SumArraysFirstTwo(h, n, names) ==
    Zip(Deref(h, n[names[1]]), Deref(h, n[names[2]]), LAMBDA u, v : u + v)

\* lattice1 + lattice2 (+ lattice3), left to right, each sum a new array
RECURSIVE SumArrays(_, _, _)
SumArrays(h, n, names) ==
    IF Len(names) = 1 THEN Deref(h, n[names[1]])
    ELSE Zip(SumArrays(h, n, SubSeq(names, 1, Len(names) - 1)),
             Deref(h, n[names[Len(names)]]), LAMBDA u, v : u + v)

\* combined = lattice1 + lattice2 [+ lattice3]
Combine ==
    /\ stmt.fn = "add"
    /\ \E r \in {Alloc(heap, SumArrays(heap, ns, stmt.args))} :
           /\ heap' = r.heap
           /\ ns' = Bind(ns, stmt.outs, <<r.ref>>)
    /\ Advance

\* lines 100-109: the combined field is handed to the plot
Plot ==
    /\ stmt.fn = "imshow"
    /\ heap' = heap
    /\ ns' = Bind(ns, stmt.outs, <<ns[stmt.args[1]]>>)
    /\ Advance

Next == Load \/ BuildGrid \/ ApplyStrain \/ GrapheneLattice \/ RotateGrid \/ Combine \/ Plot

(***************************************************************************)
(* The widgets (src/app2.py).  A slider is                                 *)
(* st.sidebar.slider(label, min, max, value, step, key); it returns a      *)
(* position min + k * step within [min, max], `value` until the user moves *)
(* it.  params holds what the widgets return to a run, and so the values   *)
(* handed to linspace and to the core; a slider the run does not draw      *)
(* binds nothing, which params shows as 0.                                 *)
(***************************************************************************)
SliderOf(lo, hi, value, step) == [min |-> lo, max |-> hi, value |-> value, step |-> step]

\* a variant whose scan-area slider is the Quick Mode one in both modes
extent_slider_quick_only(render_mode) == SliderOf(10, 100, 50, 10)

\* lines 43 and 47
extent_slider(render_mode) ==
    IF render_mode = "Quick Mode" THEN SliderOf(10, 100, 50, 10)
                                  ELSE SliderOf(50, 500, 200, 50)
\* lines 44 and 48
grid_size_slider(render_mode) ==
    IF render_mode = "Quick Mode" THEN SliderOf(200, 800, 400, 100)
                                  ELSE SliderOf(800, 3000, 1500, 100)
\* lines 57, 58
strain1_slider == SliderOf(Tenths(0), Tenths(100), Tenths(20), Tenths(1))
angle1_slider == SliderOf(Whole(0), Whole(180), Whole(0), Whole(1))

\* a variant whose layer-2 twist slider runs to 15 degrees
theta_layer2_slider_wide(system_mode) ==
    SliderOf(Tenths(0), Tenths(150), Tenths(15), Tenths(1))

\* lines 62 and 78
theta_layer2_slider(system_mode) ==
    SliderOf(Tenths(0), Tenths(100),
             IF system_mode = "Bilayer" THEN Tenths(11) ELSE Tenths(48),
             Tenths(1))
\* lines 64, 65 and 81, 82
strain2_slider == SliderOf(Tenths(0), Tenths(100), Tenths(0), Tenths(1))
angle2_slider == SliderOf(Whole(0), Whole(180), Whole(0), Whole(1))
\* line 79
theta_layer3_slider == SliderOf(Tenths(0 - 100), Tenths(100), Tenths(0 - 15), Tenths(1))
\* lines 84, 85
strain3_slider == SliderOf(Tenths(0), Tenths(100), Tenths(0), Tenths(1))
angle3_slider == SliderOf(Whole(0), Whole(180), Whole(0), Whole(1))

\* the slider that binds `name` in a run in the given modes
Slider(system_mode, render_mode, name) ==
    CASE name = "extent" -> extent_slider(render_mode)
      [] name = "grid_size" -> grid_size_slider(render_mode)
      [] name = "strain1" -> strain1_slider
      [] name = "angle1" -> angle1_slider
      [] name = "theta_layer2" -> theta_layer2_slider(system_mode)
      [] name = "strain2" -> strain2_slider
      [] name = "angle2" -> angle2_slider
      [] name = "theta_layer3" -> theta_layer3_slider
      [] name = "strain3" -> strain3_slider
      [] name = "angle3" -> angle3_slider

SliderNames ==
    {"extent", "grid_size", "strain1", "angle1", "theta_layer2", "strain2", "angle2",
     "theta_layer3", "strain3", "angle3"}

\* the sliders a run of app draws: none where the script does not compile
Drawn(app, system_mode) ==
    IF ~Compiles(app) THEN {}
    ELSE IF system_mode = "Trilayer" THEN SliderNames
    ELSE SliderNames \ {"theta_layer3", "strain3", "angle3"}

\* the positions a slider can return
Positions(sl) == {sl.min + k * sl.step : k \in 0 .. ((sl.max - sl.min) \div sl.step)}

\* the values the first run binds: every slider it draws at its default
FirstRun(app, system_mode, render_mode) ==
    [k \in {"app", "system_mode", "render_mode"} \cup SliderNames |->
       CASE k = "app" -> app
         [] k = "system_mode" -> system_mode
         [] k = "render_mode" -> render_mode
         [] OTHER -> IF k \in Drawn(app, system_mode)
                     THEN Slider(system_mode, render_mode, k).value
                     ELSE 0]

FullView(n) == [rows |-> Range(n), cols |-> Range(n)]

EmptyNs == [k \in ArrayNames |-> NoRef]

\* the start of a run of the script
RunStart ==
    /\ pc = LoadLine
    /\ heap = <<>>
    /\ ns = EmptyNs
    /\ log = <<>>

\* a run of a script that does not compile
BrokenStart ==
    /\ \E ap \in Apps :
         /\ ~Compiles(ap)
         /\ params = FirstRun(ap, "Bilayer", "Quick Mode")
    /\ view = FullView(0)
    /\ RunStart

(***************************************************************************)
(* Spec: one render of the core on a small grid held in full.  The inputs  *)
(* are drawn from the sets below, in the units of the widgets: extent and  *)
(* grid_size are Python ints, strains (percent), strain directions and     *)
(* twists (degrees) are floats.                                            *)
(***************************************************************************)
MaxGridSize == 3
Extents == {10, 50}
StrainSamples == <<{Tenths(0), Tenths(20)}, {Tenths(0), Tenths(30)}, {Tenths(0), Tenths(40)}>>
AngleSamples == <<{Whole(0), Whole(30)}, {Whole(0), Whole(30)}, {Whole(60)}>>
Theta2Samples == {Tenths(0), Tenths(15)}
Theta3Samples == {Tenths(0), Tenths(0 - 15)}

Init ==
    \/ BrokenStart
    \/ /\ \E ap \in Apps, m \in {"Bilayer", "Trilayer"}, e \in Extents, g \in 2 .. MaxGridSize,
             s1 \in StrainSamples[1], a1 \in AngleSamples[1],
             s2 \in StrainSamples[2], a2 \in AngleSamples[2], t2 \in Theta2Samples :
            \E s3 \in (IF m = "Trilayer" THEN StrainSamples[3] ELSE {Tenths(0)}),
               a3 \in (IF m = "Trilayer" THEN AngleSamples[3] ELSE {Whole(0)}),
               t3 \in (IF m = "Trilayer" THEN Theta3Samples ELSE {Tenths(0)}) :
              /\ Compiles(ap)
              /\ params = [app |-> ap, system_mode |-> m, render_mode |-> "Quick Mode",
                           extent |-> e, grid_size |-> g,
                           strain1 |-> s1, angle1 |-> a1,
                           strain2 |-> s2, angle2 |-> a2, theta_layer2 |-> t2,
                           strain3 |-> s3, angle3 |-> a3, theta_layer3 |-> t3]
              /\ view = FullView(g)
       /\ RunStart

Spec == Init /\ [][Next]_vars

(***************************************************************************)
(* SpecScenario: the two literal renders on the 400 x 400 grid, each with  *)
(* every slider of app2.py at the position the scenario names.  The model  *)
(* holds one window of the 2-D arrays per behaviour: a single element at a *)
(* corner, an edge or the middle, or the middle block.                     *)
(***************************************************************************)
ScenarioExtent == 50
ScenarioGridSize == 400

\* the indices of the middle of an axis of n samples (one for odd n, two for even n)
CentreIdx(n) == {(n - 1) \div 2, n \div 2}
ProbeIdx(n) == {0, n - 1} \cup CentreIdx(n)
ScenarioViews(n) ==
    {[rows |-> {r}, cols |-> {c}] : r \in ProbeIdx(n), c \in ProbeIdx(n)}
      \cup {[rows |-> CentreIdx(n), cols |-> CentreIdx(n)]}

ScenarioParams(m) ==
    [app |-> 2, system_mode |-> m, render_mode |-> "Quick Mode",
     extent |-> ScenarioExtent, grid_size |-> ScenarioGridSize,
     strain1 |-> Tenths(20), angle1 |-> Whole(0),
     strain2 |-> Tenths(30), angle2 |-> Whole(30),
     theta_layer2 |-> IF m = "Bilayer" THEN Tenths(15) ELSE Tenths(48),
     strain3 |-> IF m = "Bilayer" THEN Tenths(0) ELSE Tenths(40),
     angle3 |-> IF m = "Bilayer" THEN Whole(0) ELSE Whole(60),
     theta_layer3 |-> IF m = "Bilayer" THEN Tenths(0) ELSE Tenths(0 - 15)]

\* p holds, for every slider the run draws, a position of that slider, and 0
\* for every other slider
SliderPositions(p) ==
    \A name \in SliderNames :
      IF name \in Drawn(p.app, p.system_mode)
      THEN p[name] \in Positions(Slider(p.system_mode, p.render_mode, name))
      ELSE p[name] = 0

InitScenario ==
    /\ \E m \in {"Bilayer", "Trilayer"} :
         /\ params = ScenarioParams(m)
         /\ SliderPositions(params)
         /\ view \in ScenarioViews(params.grid_size)
    /\ RunStart

SpecScenario == InitScenario /\ [][Next]_vars

(***************************************************************************)
(* SpecPanel: the control panel.  Every interaction (a radio button, a     *)
(* slider) makes Streamlit run the script again with the widgets' new      *)
(* values.  Widgets are keyed: a slider keeps its position from run to run *)
(* while every run draws it, and a slider a run did not draw is back at    *)
(* its default when a later run draws it.  The sliders of the two render   *)
(* modes and the layer-2 and layer-3 sliders of the two system modes have  *)
(* keys of their own.                                                      *)
(*                                                                         *)
(* The model moves a slider to its default, its upper end, zero where zero *)
(* is a position, and the lowest MaxSteps positions; and it keeps at most  *)
(* MaxMoved of the sliders on the page away from their defaults at a time. *)
(***************************************************************************)
MaxSteps == 1
MaxMoved == 4

Stops(sl) ==
    {v \in Positions(sl) :
       \/ v \in {sl.value, sl.max, 0}
       \/ (v - sl.min) \div sl.step < MaxSteps}

\* the sliders on the page that are not at their defaults
OffDefault(p) ==
    {name \in Drawn(p.app, p.system_mode) :
       p[name] # Slider(p.system_mode, p.render_mode, name).value}

\* whether the slider binding `name` is one widget in both system modes
SameWidget(name) == name \in {"extent", "grid_size", "strain1", "angle1"}

\* the values a run binds, given the values q of the run before it
Rerun(q, system_mode, render_mode) ==
    [k \in DOMAIN q |->
       CASE k \in {"extent", "grid_size"} ->
              IF render_mode = q.render_mode THEN q[k]
              ELSE FirstRun(q.app, system_mode, render_mode)[k]
         [] k \in SliderNames \ {"extent", "grid_size"} ->
              IF k \in Drawn(q.app, system_mode) /\ k \in Drawn(q.app, q.system_mode)
                   /\ (system_mode = q.system_mode \/ SameWidget(k))
              THEN q[k]
              ELSE FirstRun(q.app, system_mode, render_mode)[k]
         [] OTHER -> FirstRun(q.app, system_mode, render_mode)[k]]

InitPanel ==
    /\ \E ap \in Apps : params = FirstRun(ap, "Bilayer", "Quick Mode")
    /\ view = FullView(0)
    /\ RunStart

\* the widgets are on the page: the last run reached the grid statement
WidgetsDrawn == pc = FirstLine

\* line 37: the system radio
SelectSystemMode ==
    /\ WidgetsDrawn
    /\ \E m \in {"Bilayer", "Trilayer"} :
         /\ m # params.system_mode
         /\ params' = Rerun(params, m, params.render_mode)
    /\ UNCHANGED <<view, pc, heap, ns, log>>

\* line 38: the render-mode radio
SelectRenderMode ==
    /\ WidgetsDrawn
    /\ \E m \in {"Quick Mode", "High-Res Mode"} :
         /\ m # params.render_mode
         /\ params' = Rerun(params, params.system_mode, m)
    /\ UNCHANGED <<view, pc, heap, ns, log>>

\* a slider drawn by the current run is moved to another stop
MoveSlider ==
    /\ WidgetsDrawn
    /\ \E name \in Drawn(params.app, params.system_mode) :
         \E v \in Stops(Slider(params.system_mode, params.render_mode, name)) :
           /\ v # params[name]
           /\ \E q \in {[params EXCEPT ![name] = v]} :
                /\ Cardinality(OffDefault(q)) <= MaxMoved
                /\ params' = q
    /\ UNCHANGED <<view, pc, heap, ns, log>>

NextPanel == Load \/ SelectSystemMode \/ SelectRenderMode \/ MoveSlider

SpecPanel == InitPanel /\ [][NextPanel]_vars

(***************************************************************************)
(* Properties.                                                             *)
(***************************************************************************)
Bound(name) == ns[name] # NoRef
Val(name) == Deref(heap, ns[name])
Trilayer == params.system_mode = "Trilayer"
LayerCount == IF Trilayer THEN 3 ELSE 2

\* the names the script gives to the arrays and parameters of layer k
XN == <<"X1", "X2", "X3">>
YN == <<"Y1", "Y2", "Y3">>
XRotN == <<"X1", "X2_rot", "X3_rot">>
YRotN == <<"Y1", "Y2_rot", "Y3_rot">>
LatN == <<"lattice1", "lattice2", "lattice3">>
StrainN == <<"strain1", "strain2", "strain3">>
AngleN == <<"angle1", "angle2", "angle3">>
ThetaN == <<"none", "theta_layer2", "theta_layer3">>

\* references to the two arrays of a two-buffer heap
Ref1 == [buf |-> 1, comp |-> WHOLE]
Ref2 == [buf |-> 2, comp |-> WHOLE]

\* the arrays rotate_grid returns for the coordinate arrays Xv, Yv
RotatedBy(Xv, Yv, angle_deg) ==
    LET r == rotate_grid(<<Xv, Yv>>, Ref1, Ref2, angle_deg)
    IN  <<r.heap[r.ret[1].buf], r.heap[r.ret[2].buf]>>

\* the field graphene_lattice returns for the coordinate arrays Xv, Yv
LatticeOn(Xv, Yv) ==
    LET r == graphene_lattice(<<Xv, Yv>>, Ref1, Ref2, a)
    IN  r.heap[r.ret[1].buf]

\* the grid the run's parameters define
GridOf(p, v) ==
    meshgrid(linspace(-Whole(p.extent), Whole(p.extent), p.grid_size),
             linspace(-Whole(p.extent), Whole(p.extent), p.grid_size), v)

\* the coordinates of layer k: the grid arrays Xv, Yv strained by layer k's
\* strain and, for k > 1, then rotated by layer k's twist
LayerCoords(Xv, Yv, p, k) ==
    LET S == strained(Xv, Yv, p[StrainN[k]], p[AngleN[k]])
    IN  IF k = 1 THEN <<component(S, 0), component(S, 1)>>
        ELSE RotatedBy(component(S, 0), component(S, 1), p[ThetaN[k]])

OnCoords(coords) == LatticeOn(coords[1], coords[2])
LayerField(Xv, Yv, p, k) == OnCoords(LayerCoords(Xv, Yv, p, k))

Plus(A, B) == Zip(A, B, LAMBDA u, v : u + v)

SameIndexSet(A, v) ==
    /\ DOMAIN A.at = v.rows
    /\ \A r \in v.rows : DOMAIN A.at[r] = v.cols

\* C1: once combined is bound it is the elementwise sum of the lattice fields
\* of the selected mode, lattice1 + lattice2 in Bilayer (two layers processed,
\* no third) and lattice1 + lattice2 + lattice3 in Trilayer (three processed),
\* on the index set and with the shape of the grid.
C1_CombinedIsLayerSum ==
    Bound("combined") =>
        /\ Val("combined").shape = Val("X").shape
        /\ SameIndexSet(Val("combined"), view) /\ SameIndexSet(Val("X"), view)
        /\ Val("combined") =
             IF Trilayer THEN Plus(Plus(Val("lattice1"), Val("lattice2")), Val("lattice3"))
                         ELSE Plus(Val("lattice1"), Val("lattice2"))
        /\ Cardinality({i \in DOMAIN log : log[i].fn = "graphene_lattice"}) = LayerCount
        /\ Cardinality({i \in DOMAIN log : log[i].fn = "apply_strain"}) = LayerCount
        /\ \A k \in 1 .. 3 : Bound(LatN[k]) <=> k <= LayerCount

C1_Witness ==
    /\ pc = DoneLine /\ Trilayer /\ params.grid_size = MaxGridSize
    /\ params.strain3 # 0 /\ params.theta_layer3 # 0
    /\ Val("combined") # Plus(Val("lattice1"), Val("lattice2"))

\* C2: for every layer whose lattice is bound, the run strained, then (layers
\* 2 and 3) rotated, then evaluated the lattice: layer 1's lattice read the
\* strained coordinates X1, Y1 and no rotation ever touched them; the lattice
\* of layer k > 1 read Xk_rot, Yk_rot, which rotate_grid made from the
\* strained Xk, Yk with layer k's own twist; the coordinate arrays hold those
\* values, and when the run ends the lattice is the lattice of them.
NamesOf(st) == {st.args[i] : i \in DOMAIN st.args} \cup {st.outs[i] : i \in DOMAIN st.outs}

C2_StrainRotateLattice ==
    /\ \A i, j \in DOMAIN log :
         i # j => {log[i].outs[n] : n \in DOMAIN log[i].outs}
                    \cap {log[j].outs[n] : n \in DOMAIN log[j].outs} = {}
    /\ \A k \in 1 .. 3 :
         Bound(LatN[k]) =>
           /\ \E i, j \in DOMAIN log :
                /\ i < j
                /\ log[i].fn = "apply_strain"
                /\ log[i].args = <<"X", "Y", StrainN[k], AngleN[k]>>
                /\ log[i].outs = <<XN[k], YN[k]>>
                /\ log[j].fn = "graphene_lattice"
                /\ log[j].args = <<XRotN[k], YRotN[k]>>
                /\ log[j].outs = <<LatN[k]>>
                /\ IF k = 1
                   THEN \A m \in DOMAIN log :
                          log[m].fn = "rotate_grid" => NamesOf(log[m]) \cap {"X1", "Y1"} = {}
                   ELSE \E m \in DOMAIN log :
                          /\ i < m /\ m < j
                          /\ log[m].fn = "rotate_grid"
                          /\ log[m].args = <<XN[k], YN[k], ThetaN[k]>>
                          /\ log[m].outs = <<XRotN[k], YRotN[k]>>
           /\ \E coords \in {LayerCoords(Val("X"), Val("Y"), params, k)} :
                /\ Val(XRotN[k]) = coords[1]
                /\ Val(YRotN[k]) = coords[2]
                /\ pc = DoneLine => Val(LatN[k]) = OnCoords(coords)

\* a layer 2 whose strain and twist do not commute, its lattice evaluated
C2_Witness ==
    /\ pc = DoneLine /\ Trilayer
    /\ params.strain2 # 0 /\ params.angle2 # 0 /\ params.theta_layer2 # 0
    /\ params.strain3 # 0 /\ params.theta_layer3 # 0
    /\ params.theta_layer2 # params.theta_layer3
    /\ \E rot \in {RotatedBy(Val("X"), Val("Y"), params.theta_layer2)} :
         Val("X2_rot") # component(strained(rot[1], rot[2], params.strain2, params.angle2), 0)

\* C3: the arrays apply_strain returns for layer k hold, at every grid point,
\* x' = (1 + eps_xx) x + eps_xy y and y' = eps_xy x + (1 + eps_yy) y of that
\* point's own x, y, and have the shape and index set of the grid arrays.
C3_StrainIsMatrixVector ==
    \A k \in 1 .. 3 :
      Bound(XN[k]) =>
        /\ Val(XN[k]).shape = Val("X").shape /\ Val(YN[k]).shape = Val("Y").shape
        /\ SameIndexSet(Val(XN[k]), view) /\ SameIndexSet(Val(YN[k]), view)
        /\ \E xx \in {eps_xx(params[StrainN[k]], params[AngleN[k]])},
              yy \in {eps_yy(params[StrainN[k]], params[AngleN[k]])},
              xy \in {eps_xy(params[StrainN[k]], params[AngleN[k]])} :
             /\ Val(XN[k]) = Zip(Val("X"), Val("Y"),
                                 LAMBDA x, y : FMul(SCALE + xx, x) + FMul(xy, y))
             /\ Val(YN[k]) = Zip(Val("X"), Val("Y"),
                                 LAMBDA x, y : FMul(xy, x) + FMul(SCALE + yy, y))

\* a strain with a shear part, applied
C3_Witness ==
    /\ Bound("X2") /\ params.strain2 = Tenths(30) /\ params.angle2 = Whole(30)
    /\ params.grid_size = MaxGridSize
    /\ eps_xy(params.strain2, params.angle2) # 0
    /\ Val("X2") # Val("X")

\* C4: a layer whose strain is 0 percent gets the grid arrays back unchanged,
\* whatever its strain direction.
C4_ZeroStrainIsIdentity ==
    \A k \in 1 .. 3 :
      (Bound(XN[k]) /\ params[StrainN[k]] = 0) =>
        (Val(XN[k]) = Val("X") /\ Val(YN[k]) = Val("Y"))

C4_Witness ==
    /\ Bound("X1") /\ params.strain1 = 0 /\ params.angle1 = Whole(30)
    /\ Bound("X2") /\ params.strain2 = 0 /\ params.angle2 = Whole(0)

\* C5: a layer 2 or 3 whose twist is 0 gets its strained coordinates back
\* unchanged from rotate_grid, which the run called all the same, and its
\* lattice is the lattice of its strained coordinates.
C5_ZeroTwistIsIdentity ==
    \A k \in 2 .. 3 :
      (Bound(XRotN[k]) /\ params[ThetaN[k]] = 0) =>
        /\ Val(XRotN[k]) = Val(XN[k])
        /\ Val(YRotN[k]) = Val(YN[k])
        /\ \E m \in DOMAIN log :
             log[m].fn = "rotate_grid" /\ log[m].outs = <<XRotN[k], YRotN[k]>>
        /\ Bound(LatN[k]) => Val(LatN[k]) = LatticeOn(Val(XN[k]), Val(YN[k]))

C5_Witness ==
    /\ Bound("lattice2") /\ params.theta_layer2 = 0
    /\ params.strain2 # 0 /\ params.angle2 # 0
    /\ Val("X2") # Val("X")

\* C6: the axes have grid_size samples, the first -extent and the last
\* +extent exactly, every sample the nearest number to
\* -extent + i * 2 extent / (grid_size - 1) (so neighbouring gaps differ by at
\* most one unit of resolution), and X[r][c] = x[c], Y[r][c] = y[r] on a
\* grid_size x grid_size index set.
Gap(A, i) == A.at[i + 1] - A.at[i]
C6_GridLayout ==
    Bound("X") =>
        /\ params.extent > 0 /\ params.grid_size >= 2
        /\ Val("x").shape = <<params.grid_size>> /\ Val("y").shape = <<params.grid_size>>
        /\ DOMAIN Val("x").at = Range(params.grid_size)
        /\ DOMAIN Val("y").at = Range(params.grid_size)
        /\ Val("x").at[0] = 0 - Whole(params.extent)
        /\ Val("x").at[params.grid_size - 1] = Whole(params.extent)
        /\ Val("y") = Val("x")
        /\ \E xs \in {Val("x")} :
             /\ \A i \in Range(params.grid_size) :
                  2 * Abs((params.grid_size - 1) * xs.at[i]
                            - (2 * i - (params.grid_size - 1)) * Whole(params.extent))
                    <= params.grid_size - 1
             /\ \A i, j \in Range(params.grid_size - 1) :
                  Gap(xs, i) > 0 /\ Abs(Gap(xs, i) - Gap(xs, j)) <= 1
        /\ Val("X").shape = <<params.grid_size, params.grid_size>>
        /\ Val("Y").shape = Val("X").shape
        /\ SameIndexSet(Val("X"), FullView(params.grid_size))
        /\ SameIndexSet(Val("Y"), FullView(params.grid_size))
        /\ Val("X").at = [r \in Range(params.grid_size) |->
                            [c \in Range(params.grid_size) |-> Val("x").at[c]]]
        /\ Val("Y").at = [r \in Range(params.grid_size) |->
                            [c \in Range(params.grid_size) |-> Val("y").at[r]]]
        /\ (params.extent = 10 /\ params.grid_size = 2) =>
             Val("x").at = [i \in Range(2) |-> IF i = 0 THEN 0 - Whole(10) ELSE Whole(10)]

C6_Witness ==
    /\ Bound("X") /\ params.extent = 10 /\ params.grid_size = 2
    /\ Val("X").at[1][0] = 0 - Whole(10) /\ Val("Y").at[1][0] = Whole(10)

\* C7 (amended): in the literal scenarios the field is 400 x 400, no sample
\* of the axes lies at 0, the four middle samples lie at x, y = +-50/399, and
\* the field at the middle samples is below 6 (Bilayer) or 9 (Trilayer), by
\* less than 1.
OriginValue == Whole(3 * LayerCount)
MiddleRows == view.rows \cap CentreIdx(params.grid_size)
MiddleCols == view.cols \cap CentreIdx(params.grid_size)

C7_ScenarioCentre ==
    Bound("combined") =>
        /\ Val("combined").shape = <<ScenarioGridSize, ScenarioGridSize>>
        /\ SameIndexSet(Val("combined"), view)
        /\ \A i \in Range(ScenarioGridSize) : Val("x").at[i] # 0 /\ Val("y").at[i] # 0
        /\ \A r \in MiddleRows, c \in MiddleCols :
             /\ Abs(Val("x").at[c]) = RoundDiv(Whole(ScenarioExtent), ScenarioGridSize - 1)
             /\ Abs(Val("y").at[r]) = RoundDiv(Whole(ScenarioExtent), ScenarioGridSize - 1)
             /\ Val("combined").at[r][c] < OriginValue
             /\ Val("combined").at[r][c] > OriginValue - Whole(1)

\* the Bilayer render finished, its four middle samples held
C7_Witness ==
    /\ pc = DoneLine /\ ~Trilayer /\ params.grid_size = ScenarioGridSize
    /\ params.extent = ScenarioExtent /\ params.theta_layer2 = Tenths(15)
    /\ Cardinality(MiddleRows) = 2 /\ Cardinality(MiddleCols) = 2

\* C7 as the spec states it: on the 400 x 400 grid the middle sample is
\* (x = 0, y = 0) and the field there is 6 (Bilayer), 9 (Trilayer).
C7_AsStated ==
    Bound("combined") =>
        /\ Val("combined").shape = <<ScenarioGridSize, ScenarioGridSize>>
        /\ \A r \in MiddleRows, c \in MiddleCols :
             /\ Val("x").at[c] = 0 /\ Val("y").at[r] = 0
             /\ Val("combined").at[r][c] = OriginValue

\* C8: once a run has read the sliders, the extent and grid_size it hands to
\* linspace are positions of the sliders of the selected render mode: extent
\* in [10, 100] and grid_size in [200, 800] in Quick Mode, extent in [50, 500]
\* and grid_size in [800, 3000] in High-Res Mode; so extent > 0 and
\* grid_size >= 2.
C8_GridArgumentsInRange ==
    (WidgetsDrawn /\ stmt.fn = "grid" /\ stmt.args = <<"extent", "grid_size">>) =>
        /\ params.extent > 0 /\ params.grid_size >= 2
        /\ params.render_mode = "Quick Mode" =>
             /\ params.extent \in 10 .. 100 /\ params.extent % 10 = 0
             /\ params.grid_size \in 200 .. 800 /\ params.grid_size % 100 = 0
        /\ params.render_mode = "High-Res Mode" =>
             /\ params.extent \in 50 .. 500 /\ params.extent % 50 = 0
             /\ params.grid_size \in 800 .. 3000 /\ params.grid_size % 100 = 0
        /\ params.render_mode \in {"Quick Mode", "High-Res Mode"}

\* High-Res Mode with both sliders at their upper ends, after the Quick Mode
\* sliders were read
C8_Witness ==
    /\ WidgetsDrawn /\ params.render_mode = "High-Res Mode"
    /\ params.extent = 500 /\ params.grid_size = 3000

\* the twist the script applies to layer k: the angle of the rotate_grid
\* statement that reads Xk, or 0 where no statement rotates Xk
ScriptLines == FirstLine .. DoneLine
TwistOf(p, k) ==
    IF \E l \in ScriptLines :
         /\ Script(p.system_mode, l).fn = "rotate_grid"
         /\ Script(p.system_mode, l).args[1] = XN[k]
    THEN p[Script(p.system_mode,
                  CHOOSE l \in ScriptLines :
                    /\ Script(p.system_mode, l).fn = "rotate_grid"
                    /\ Script(p.system_mode, l).args[1] = XN[k]).args[3]]
    ELSE 0

\* C9 (amended): once a run has read the sliders, layer 1 has twist 0 (no
\* statement rotates it); the twist of layer 2 is a position in [0, 10]
\* degrees and that of layer 3 (Trilayer) a position in [-10, 10]; either may
\* be 0.
C9_TwistRanges ==
    WidgetsDrawn =>
        /\ TwistOf(params, 1) = 0
        /\ TwistOf(params, 2) = params.theta_layer2
        /\ Tenths(0) <= params.theta_layer2 /\ params.theta_layer2 <= Tenths(100)
        /\ params.theta_layer2 % Tenths(1) = 0
        /\ Trilayer =>
             /\ TwistOf(params, 3) = params.theta_layer3
             /\ Tenths(0 - 100) <= params.theta_layer3 /\ params.theta_layer3 <= Tenths(100)
             /\ params.theta_layer3 % Tenths(1) = 0

\* Trilayer with both twist sliders moved to 0
C9_Witness ==
    /\ WidgetsDrawn /\ Trilayer /\ TwistOf(params, 2) = 0 /\ TwistOf(params, 3) = 0

\* C9 as the spec states it: layer 1 has twist 0 and every other layer of the
\* selected mode has a nonzero twist.
C9_AsStated ==
    WidgetsDrawn =>
        /\ TwistOf(params, 1) = 0
        /\ \A k \in 2 .. LayerCount : TwistOf(params, k) # 0

\* C10: in every state after the grid statement x, y, X and Y hold the grid
\* as it was built (no later statement changes what they name or hold), the
\* grid is built once, the strained coordinates of every layer are those of
\* the grid as built under that layer's own strain, and when the run ends the
\* field of every layer is the one computed from the grid as built and that
\* layer's own strain, strain direction and twist alone.
C10_GridFrame ==
    /\ Cardinality({i \in DOMAIN log : log[i].fn = "grid"}) <= 1
    /\ \E G \in {GridOf(params, view)} :
         /\ Bound("X") =>
              /\ Val("X") = G[1] /\ Val("Y") = G[2]
              /\ Val("x") = linspace(0 - Whole(params.extent), Whole(params.extent), params.grid_size)
              /\ Val("y") = Val("x")
              /\ \A i \in DOMAIN log : log[i].fn # "grid" =>
                   {log[i].outs[n] : n \in DOMAIN log[i].outs} \cap {"x", "y", "X", "Y"} = {}
         /\ \A k \in 1 .. 3 :
              /\ Bound(XN[k]) =>
                   \E S \in {strained(G[1], G[2], params[StrainN[k]], params[AngleN[k]])} :
                     Val(XN[k]) = component(S, 0) /\ Val(YN[k]) = component(S, 1)
              /\ (pc = DoneLine /\ Bound(LatN[k])) =>
                   Val(LatN[k]) = LayerField(G[1], G[2], params, k)

\* three layers of different nonzero strain, all evaluated
C10_Witness ==
    /\ pc = DoneLine /\ Trilayer
    /\ params.strain1 # 0 /\ params.strain2 # 0 /\ params.strain3 # 0
    /\ params.angle2 # 0 /\ params.angle3 # 0
    /\ Val("X1") # Val("X") /\ Val("X2") # Val("X1") /\ Val("X3") # Val("X2")
====
